---- MODULE Spec2Model ----
(***************************************************************************)
(* BODMASSolver of flask_app.py: solve, validate_answer and                *)
(* get_correct_steps, with the Python built-ins they rest on (eval, str,   *)
(* float, re.search) modelled over strings of characters.                  *)
(*                                                                         *)
(* A string is a sequence of one-character strings.  A number is a record  *)
(* [k, n, d, f, nz]: the rational n/d in lowest terms, f = TRUE for a      *)
(* Python float and FALSE for an int, nz = TRUE for the float -0.0.        *)
(* k is "num" for a number, "inf" for float('inf'), "err" for a raised     *)
(* run-time exception, "syn" for a SyntaxError, "none" for None and        *)
(* "beyond" for a value outside the numeric range of the model.            *)
(***************************************************************************)
EXTENDS Integers, Sequences, FiniteSets, TLC

\* ------------------------------------------------------------------ bounds

\* Largest numerator magnitude the model represents.
MaxMag == 5000

\* Floats of the model are the dyadic rationals with at most this many
\* fractional bits: on them IEEE double arithmetic and repr() are exact.
MaxFracBits == 4

\* Student answers are drawn at -MaxOffset..MaxOffset steps of 2^-14 around
\* the correct answer.
MaxOffset == 1

\* ------------------------------------------------------------------ numbers

Abs(x) == IF x < 0 THEN -x ELSE x

RECURSIVE Gcd(_, _)
Gcd(a, b) == IF b = 0 THEN a ELSE Gcd(b, a % b)

RECURSIVE Pow10(_)
Pow10(k) == IF k = 0 THEN 1 ELSE 10 * Pow10(k - 1)

RECURSIVE Pow2(_)
Pow2(k) == IF k = 0 THEN 1 ELSE 2 * Pow2(k - 1)

DyadicDens == {Pow2(k) : k \in 0..MaxFracBits}

Num(n, d, f, nz) == [k |-> "num", n |-> n, d |-> d, f |-> f, nz |-> nz]
Special(kind) == [k |-> kind, n |-> 0, d |-> 1, f |-> FALSE, nz |-> FALSE]
SyntaxErr == Special("syn")
Raised == Special("err")
Beyond == Special("beyond")
None == Special("none")
Inf == [k |-> "inf", n |-> 0, d |-> 1, f |-> TRUE, nz |-> FALSE]

IsNum(v) == v.k = "num"

\* n/d in lowest terms, or Beyond outside the model's range
Normal(n, d, f, nz) ==
    IF Abs(n) <= MaxMag /\ d \in DyadicDens
    THEN Num(n, d, f, f /\ n = 0 /\ nz)
    ELSE Beyond

\* the value n/d (d > 0)
Mk(n, d, f, nz) == Normal(n \div Gcd(Abs(n), d), d \div Gcd(Abs(n), d), f, nz)

\* The sign bit of a number (of -0.0 too).
Negative(v) == v.n < 0 \/ v.nz

\* How two results combine before the operation itself is applied: a syntax
\* error is found at compile time, the left operand is evaluated first.
Blocked(a, b) ==
    IF a.k = "syn" \/ b.k = "syn" THEN SyntaxErr
    ELSE IF a.k = "beyond" \/ b.k = "beyond" THEN Beyond
    ELSE IF a.k # "num" THEN a
    ELSE b

FloatAdd(a, b, f) ==
    Mk(a.n * b.d + b.n * a.d, a.d * b.d, f, a.f /\ b.f /\ a.nz /\ b.nz)

FloatNeg(a) == Num(-a.n, a.d, a.f, a.f /\ a.n = 0 /\ ~a.nz)

FloatMul(a, b, f) ==
    Mk(a.n * b.n, a.d * b.d, f, Negative(a) # Negative(b))

\* a / b for b.n # 0
FloatDiv(a, b, f) ==
    Mk((IF b.n < 0 THEN -1 ELSE 1) * a.n * b.d, a.d * Abs(b.n), f,
       Negative(a) # Negative(b))

\* a // b for b.n # 0: Python's floor division
FloorDiv(a, b, f) ==
    Mk(((IF b.n < 0 THEN -1 ELSE 1) * a.n * b.d) \div (a.d * Abs(b.n)), 1, f,
       Negative(a) # Negative(b))

\* acc * a ** e, or what stopped the multiplication
RECURSIVE PowAcc(_, _, _)
PowAcc(acc, a, e) ==
    IF e = 0 \/ ~IsNum(acc) THEN acc
    ELSE PowAcc(FloatMul(acc, a, acc.f), a, e - 1)

\* a ** e for an integer e >= 0, of type f
PowNat(a, e, f) ==
    IF e = 0 THEN Num(1, 1, f, FALSE)
    ELSE IF a.n = 0 THEN Num(0, 1, f, f /\ a.nz /\ e % 2 = 1)
    ELSE IF Abs(a.n) = 1 /\ a.d = 1
         THEN Num(IF a.n < 0 /\ e % 2 = 1 THEN -1 ELSE 1, 1, f, FALSE)
    ELSE PowAcc(Num(1, 1, f, FALSE), a, e)

\* 1.0 / p, or what p is when it is no number
Reciprocal(p) ==
    IF ~IsNum(p) THEN p ELSE FloatDiv(Num(1, 1, TRUE, FALSE), p, TRUE)

\* Python's a ** b on ints and floats
PyPow(a, b) ==
    IF b.d # 1 THEN Beyond
    ELSE IF b.n >= 0 THEN PowNat(a, b.n, a.f \/ b.f)
    ELSE IF a.n = 0 THEN Raised
    ELSE Reciprocal(PowNat(a, -b.n, TRUE))

\* Python's binary operators on ints and floats
PyBinOp(op, a, b) ==
    IF ~IsNum(a) \/ ~IsNum(b) THEN Blocked(a, b)
    ELSE CASE op = "+" -> FloatAdd(a, b, a.f \/ b.f)
           [] op = "-" -> FloatAdd(a, FloatNeg([b EXCEPT !.f = TRUE]), a.f \/ b.f)
           [] op = "*" -> FloatMul(a, b, a.f \/ b.f)
           [] op = "/" -> IF b.n = 0 THEN Raised ELSE FloatDiv(a, b, TRUE)
           [] op = "//" -> IF b.n = 0 THEN Raised ELSE FloorDiv(a, b, a.f \/ b.f)
           [] op = "**" -> PyPow(a, b)
           [] OTHER -> SyntaxErr

PyUnary(op, a) ==
    IF ~IsNum(a) THEN a
    ELSE IF op = "-" THEN FloatNeg(a) ELSE a

\* float(x) of a number
ToFloat(v) == IF IsNum(v) THEN [v EXCEPT !.f = TRUE] ELSE v

\* ------------------------------------------------------------------ strings

Digits == {"0", "1", "2", "3", "4", "5", "6", "7", "8", "9"}

DigitChar(i) == <<"0", "1", "2", "3", "4", "5", "6", "7", "8", "9">>[i + 1]

DigitVal(c) ==
    CASE c = "0" -> 0 [] c = "1" -> 1 [] c = "2" -> 2 [] c = "3" -> 3
      [] c = "4" -> 4 [] c = "5" -> 5 [] c = "6" -> 6 [] c = "7" -> 7
      [] c = "8" -> 8 [] c = "9" -> 9

IsDigit(c) == c \in Digits

\* s[i..] (Python's s[i-1:])
Tail2(s, i) == SubSeq(s, i, Len(s))

Contains(s, c) == \E i \in 1..Len(s) : s[i] = c

\* the decimal digits of n >= 0
RECURSIVE DigitsOf(_)
DigitsOf(n) ==
    IF n < 10 THEN <<DigitChar(n)>>
    ELSE DigitsOf(n \div 10) \o <<DigitChar(n % 10)>>

\* the value of a run of at most 9 decimal digits
RECURSIVE DigitsValue(_)
DigitsValue(s) ==
    IF Len(s) = 0 THEN 0
    ELSE 10 * DigitsValue(SubSeq(s, 1, Len(s) - 1)) + DigitVal(s[Len(s)])

RECURSIVE Zeros(_)
Zeros(k) == IF k <= 0 THEN <<>> ELSE <<"0">> \o Zeros(k - 1)

RECURSIVE Log2(_)
Log2(d) == IF d <= 1 THEN 0 ELSE 1 + Log2(d \div 2)

\* digits, padded with zeros in front to k places
Padded(digits, k) == Zeros(k - Len(digits)) \o digits

\* the k decimal places of r/d, for d = 2^k
Places(r, d, k) == Padded(DigitsOf((r * Pow10(k)) \div d), k)

\* str(x) of an int, a float or float('inf'); repr of a float of the model is
\* its exact decimal expansion
PyStr(v) ==
    IF v.k = "inf" THEN <<"i", "n", "f">>
    ELSE (IF Negative(v) THEN <<"-">> ELSE <<>>)
         \o DigitsOf(Abs(v.n) \div v.d)
         \o (IF ~v.f THEN <<>>
             ELSE IF v.d = 1 THEN <<".", "0">>
             ELSE <<".">> \o Places(Abs(v.n) % v.d, v.d, Log2(v.d)))

\* the first index >= i of s that holds no digit
RECURSIVE DigitRunEnd(_, _)
DigitRunEnd(s, i) ==
    IF i <= Len(s) /\ IsDigit(s[i]) THEN DigitRunEnd(s, i + 1) ELSE i

\* the number written as whole "." frac, of type f
Decimal(whole, frac, f, neg) ==
    IF Len(whole) > 4 \/ Len(frac) > 5 THEN Beyond
    ELSE Mk((IF neg THEN -1 ELSE 1)
              * (DigitsValue(whole) * Pow10(Len(frac)) + DigitsValue(frac)),
            Pow10(Len(frac)), f, neg)

\* the number whose digits start at b, with the "." (if any) at e1
FloatFrom(s, b, e1, neg) ==
    Decimal(SubSeq(s, b, e1 - 1), SubSeq(s, e1 + 1, Len(s)), TRUE, neg)

\* float(s) of a string that matches -?\d+\.?\d*
PyFloat(s) ==
    IF Len(s) > 0 /\ s[1] = "-"
    THEN FloatFrom(s, 2, DigitRunEnd(s, 2), TRUE)
    ELSE FloatFrom(s, 1, DigitRunEnd(s, 1), FALSE)

\* ------------------------------------------------------------------ eval

Tok(t, s, v, e) == [t |-> t, s |-> s, v |-> v, e |-> e]

\* the number literal whole [ "." frac ] that ends before e
Literal(whole, dot, frac, e) ==
    IF \/ dot /\ Len(whole) = 0 /\ Len(frac) = 0
       \* an int literal with a leading zero is a SyntaxError
       \/ ~dot /\ Len(whole) > 1 /\ whole[1] = "0"
          /\ \E j \in 1..Len(whole) : whole[j] # "0"
    THEN Tok("bad", "", None, e)
    ELSE Tok("num", "", Decimal(whole, frac, dot, FALSE), e)

\* the literal at i whose fraction digits end before e2
Fraction(s, i, e1, e2) ==
    Literal(SubSeq(s, i, e1 - 1), TRUE, SubSeq(s, e1 + 1, e2 - 1), e2)

\* the literal at i whose first digits end before e1
NumberToken(s, i, e1) ==
    IF e1 <= Len(s) /\ s[e1] = "."
    THEN Fraction(s, i, e1, DigitRunEnd(s, e1 + 1))
    ELSE Literal(SubSeq(s, i, e1 - 1), FALSE, <<>>, e1)

\* The token of s that starts at i (s[i] is no space): a number, an operator
\* or a character no arithmetic expression holds; e is the index after it.
PyToken(s, i) ==
    IF IsDigit(s[i]) \/ s[i] = "." THEN NumberToken(s, i, DigitRunEnd(s, i))
    ELSE IF i < Len(s) /\ s[i] = "*" /\ s[i + 1] = "*" THEN Tok("op", "**", None, i + 2)
    ELSE IF i < Len(s) /\ s[i] = "/" /\ s[i + 1] = "/" THEN Tok("op", "//", None, i + 2)
    ELSE IF s[i] \in {"+", "-", "*", "/", "(", ")"} THEN Tok("op", s[i], None, i + 1)
    ELSE Tok("bad", "", None, i + 1)

\* Python's tokens of s from index i on
RECURSIVE PyLex(_, _), LexOn(_, _)
PyLex(s, i) ==
    IF i > Len(s) THEN <<>>
    ELSE IF s[i] = " " THEN PyLex(s, i + 1)
    ELSE LexOn(s, PyToken(s, i))

LexOn(s, t) == <<t>> \o PyLex(s, t.e)

Res(v, p) == [v |-> v, p |-> p]
Failed(r) == r.v.k = "syn"
OpAt(toks, p) == IF p <= Len(toks) /\ toks[p].t = "op" THEN toks[p].s ELSE ""

\* Python's expression grammar on the tokens, evaluated as it is parsed:
\*   arith_expr: term (('+'|'-') term)*
\*   term:       factor (('*'|'/'|'//') factor)*
\*   factor:     ('+'|'-') factor | power
\*   power:      atom ['**' factor]
\*   atom:       NUMBER | '(' arith_expr ')'
\* Each rule returns the value and the index of the next token.
RECURSIVE ParseExpr(_, _), ExprRest(_, _), ParseTerm(_, _), TermRest(_, _)
RECURSIVE ParseFactor(_, _), ParsePower(_, _), ParseAtom(_, _)

\* r, the result of the right operand, applied to the left one
Applied(op, left, r) == Res(PyBinOp(op, left, r.v), r.p)

\* the ")" that closes the expression r
Closed(toks, r) ==
    IF ~Failed(r) /\ OpAt(toks, r.p) = ")" THEN Res(r.v, r.p + 1)
    ELSE Res(SyntaxErr, 0)

ParseAtom(toks, p) ==
    IF p > Len(toks) THEN Res(SyntaxErr, 0)
    ELSE IF toks[p].t = "num" THEN Res(toks[p].v, p + 1)
    ELSE IF OpAt(toks, p) = "(" THEN Closed(toks, ParseExpr(toks, p + 1))
    ELSE Res(SyntaxErr, 0)

\* what follows the atom a
PowerRest(toks, a) ==
    IF Failed(a) \/ OpAt(toks, a.p) # "**" THEN a
    ELSE Applied("**", a.v, ParseFactor(toks, a.p + 1))

ParsePower(toks, p) == PowerRest(toks, ParseAtom(toks, p))

Signed(op, r) == Res(PyUnary(op, r.v), r.p)

ParseFactor(toks, p) ==
    IF OpAt(toks, p) \in {"+", "-"}
    THEN Signed(toks[p].s, ParseFactor(toks, p + 1))
    ELSE ParsePower(toks, p)

\* what follows the factors whose product is r
TermRest(toks, r) ==
    IF Failed(r) \/ OpAt(toks, r.p) \notin {"*", "/", "//"} THEN r
    ELSE TermRest(toks, Applied(toks[r.p].s, r.v, ParseFactor(toks, r.p + 1)))

ParseTerm(toks, p) == TermRest(toks, ParseFactor(toks, p))

\* what follows the terms whose sum is r
ExprRest(toks, r) ==
    IF Failed(r) \/ OpAt(toks, r.p) \notin {"+", "-"} THEN r
    ELSE ExprRest(toks, Applied(toks[r.p].s, r.v, ParseTerm(toks, r.p + 1)))

ParseExpr(toks, p) == ExprRest(toks, ParseTerm(toks, p))

\* the value of the whole token list, r being what ParseExpr made of it
Whole(toks, r) ==
    IF Failed(r) \/ r.p # Len(toks) + 1 THEN SyntaxErr ELSE r.v

EvalTokens(toks) ==
    IF \E i \in 1..Len(toks) : toks[i].t = "bad" THEN SyntaxErr
    ELSE Whole(toks, ParseExpr(toks, 1))

\* eval(s): the value, or the exception as a value
PyEval(s) == EvalTokens(PyLex(s, 1))

\* ------------------------------------------------------------------ solve

\* float(result), None for an exception
Returned(result) ==
    IF IsNum(result) THEN ToFloat(result)
    ELSE IF result.k = "beyond" THEN Beyond
    ELSE None

\* BODMASSolver.solve: float(eval(expr)), None on any exception
solve(expr) == Returned(PyEval(expr))

\* ------------------------------------------------------------------ re.search

Match(start, end, g1, op, g3) ==
    [found |-> TRUE, start |-> start, end |-> end, g1 |-> g1, op |-> op, g3 |-> g3]

NoMatch == [found |-> FALSE, start |-> 0, end |-> 0,
            g1 |-> <<>>, op |-> "", g3 |-> <<>>]

\* the end of \d+\.?\d* whose first digits end before e1, 0 if e1 = b
FractionEnd(s, b, e1) ==
    IF e1 = b THEN 0
    ELSE IF e1 <= Len(s) /\ s[e1] = "." THEN DigitRunEnd(s, e1 + 1)
    ELSE e1

\* Index after the longest \d+\.?\d* at i, 0 if none.  What follows the first
\* group in each pattern is no digit and no ".", so the greedy end is the only
\* end a match can have.
UnsignedEnd(s, i) == FractionEnd(s, i, DigitRunEnd(s, i))

\* index after the longest -?\d+\.?\d* at i, 0 if none
NumberEnd(s, i) ==
    IF i <= Len(s) /\ s[i] = "-" THEN UnsignedEnd(s, i + 1) ELSE UnsignedEnd(s, i)

\* \s*
RECURSIVE SkipSpaces(_, _)
SkipSpaces(s, i) ==
    IF i <= Len(s) /\ s[i] = " " THEN SkipSpaces(s, i + 1) ELSE i

\* the first index >= i of s that holds a bracket, Len(s) + 1 if none
RECURSIVE NextBracket(_, _)
NextBracket(s, i) ==
    IF i > Len(s) \/ s[i] \in {"(", ")"} THEN i ELSE NextBracket(s, i + 1)

\* \([^()]+\) at i, j being the next bracket; g1 is the interior
BracketTo(s, i, j) ==
    IF j <= Len(s) /\ s[j] = ")" /\ j > i + 1
    THEN Match(i, j + 1, SubSeq(s, i + 1, j - 1), "", <<>>)
    ELSE NoMatch

BracketAt(s, i) ==
    IF s[i] = "(" THEN BracketTo(s, i, NextBracket(s, i + 1)) ELSE NoMatch

\* the second operand, from b3 to before e3
Operand(s, i, e1, op, b3, e3) ==
    IF e3 = 0 THEN NoMatch
    ELSE Match(i, e3, SubSeq(s, i, e1 - 1), op, SubSeq(s, b3, e3 - 1))

\* (\d+\.?\d*)\*\*(\d+\.?\d*) at i, the first operand ending before e1
PowerFrom(s, i, e1) ==
    IF e1 # 0 /\ e1 + 1 <= Len(s) /\ s[e1] = "*" /\ s[e1 + 1] = "*"
    THEN Operand(s, i, e1, "**", e1 + 2, UnsignedEnd(s, e1 + 2))
    ELSE NoMatch

PowerAt(s, i) == PowerFrom(s, i, UnsignedEnd(s, i))

\* \s*(-?\d+\.?\d*) at b3, after the operator
SecondFrom(s, i, e1, op, b3) == Operand(s, i, e1, op, b3, NumberEnd(s, b3))

\* ([ops])\s*(-?\d+\.?\d*) at o
OperatorAt(s, i, e1, o, ops) ==
    IF o <= Len(s) /\ s[o] \in ops
    THEN SecondFrom(s, i, e1, s[o], SkipSpaces(s, o + 1))
    ELSE NoMatch

\* (-?\d+\.?\d*)\s*([ops])\s*(-?\d+\.?\d*) at i, the first operand ending before e1
BinaryFrom(s, i, e1, ops) ==
    IF e1 = 0 THEN NoMatch ELSE OperatorAt(s, i, e1, SkipSpaces(s, e1), ops)

BinaryAt(s, i, ops) == BinaryFrom(s, i, NumberEnd(s, i), ops)

PatternAt(phase, s, i) ==
    CASE phase = "Brackets" -> BracketAt(s, i)
      [] phase = "Orders/Exponents" -> PowerAt(s, i)
      [] phase = "Division/Multiplication" -> BinaryAt(s, i, {"*", "/"})
      [] phase = "Addition/Subtraction" -> BinaryAt(s, i, {"+", "-"})

\* re.search: the match at the left-most index that has one
RECURSIVE SearchFrom(_, _, _), OrFurther(_, _, _, _)
SearchFrom(phase, s, i) ==
    IF i > Len(s) THEN NoMatch
    ELSE OrFurther(phase, s, i, PatternAt(phase, s, i))

OrFurther(phase, s, i, m) ==
    IF m.found THEN m ELSE SearchFrom(phase, s, i + 1)

re_search(phase, s) == SearchFrom(phase, s, 1)

\* ------------------------------------------------------------------ get_correct_steps

Phases == <<"Brackets", "Orders/Exponents", "Division/Multiplication",
            "Addition/Subtraction">>

\* expr.replace(' ', '')
RECURSIVE RemoveSpaces(_)
RemoveSpaces(s) ==
    IF Len(s) = 0 THEN <<>>
    ELSE IF Head(s) = " " THEN RemoveSpaces(Tail(s))
    ELSE <<Head(s)>> \o RemoveSpaces(Tail(s))

HasPower(s) == \E i \in 1..(Len(s) - 1) : s[i] = "*" /\ s[i + 1] = "*"

\* the condition of each phase's while loop
LoopCondition(phase, cur) ==
    CASE phase = "Brackets" -> Contains(cur, "(")
      [] phase = "Orders/Exponents" -> HasPower(cur)
      [] phase = "Division/Multiplication" -> Contains(cur, "*") \/ Contains(cur, "/")
      [] phase = "Addition/Subtraction" ->
            Contains(Tail2(cur, 2), "+") \/ Contains(Tail2(cur, 2), "-")

\* the string each phase searches: the last phase skips the first character
Searched(phase, cur) ==
    IF phase = "Addition/Subtraction" THEN Tail2(cur, 2) ELSE cur

\* the offset of the searched string in current_expr
Offset(phase) == IF phase = "Addition/Subtraction" THEN 1 ELSE 0

\* a * b, or a / b if b != 0 else float('inf')
MulDiv(op, a, b) ==
    IF ~IsNum(a) \/ ~IsNum(b) THEN Blocked(a, b)
    ELSE IF op = "*" THEN FloatMul(a, b, TRUE)
    ELSE IF b.n # 0 THEN FloatDiv(a, b, TRUE)
    ELSE Inf

\* the result each phase computes from its match
Compute(phase, m) ==
    CASE phase = "Brackets" -> PyEval(m.g1)
      [] phase = "Orders/Exponents" -> PyBinOp("**", PyFloat(m.g1), PyFloat(m.g3))
      [] phase = "Division/Multiplication" -> MulDiv(m.op, PyFloat(m.g1), PyFloat(m.g3))
      [] phase = "Addition/Subtraction" -> PyBinOp(m.op, PyFloat(m.g1), PyFloat(m.g3))

\* the text of the match (match.group(0), bracket_expr for the brackets)
Matched(phase, s, m) ==
    IF phase = "Brackets" THEN m.g1 ELSE SubSeq(s, m.start, m.end - 1)

StepRecord(num, expression, label, sub, result) ==
    [step |-> num, expression |-> expression,
     description |-> [label |-> label, sub |-> sub, result |-> result]]

Outcome(kind, expression, step) ==
    [kind |-> kind, expr |-> expression, step |-> step]

\* steps.append(...) and current_expr = new_expr
Appended(phase, num, new_expr, sub, result) ==
    Outcome("step", new_expr, <<StepRecord(num, new_expr, phase, sub, result)>>)

\* current_expr[:match.start()] + str(result) + current_expr[match.end():]
\* (both indices moved by the offset in the last phase)
Spliced(phase, cur, m, text) ==
    SubSeq(cur, 1, m.start - 1 + Offset(phase))
    \o text
    \o SubSeq(cur, m.end + Offset(phase), Len(cur))

\* the try block, once the result is computed
WithResult(phase, cur, num, m, result) ==
    IF result.k = "beyond" THEN Outcome("beyond", cur, <<>>)
    ELSE IF result.k \in {"syn", "err"} THEN Outcome("break", cur, <<>>)
    ELSE Appended(phase, num, Spliced(phase, cur, m, PyStr(result)),
                  Matched(phase, Searched(phase, cur), m), PyStr(result))

\* if match: ... else: break
WithMatch(phase, cur, num, m) ==
    IF ~m.found THEN Outcome("break", cur, <<>>)
    ELSE WithResult(phase, cur, num, m, Compute(phase, m))

\* One pass through a phase's while loop on current_expr:
\*   "exit"   the loop condition is false,
\*   "break"  no match, or the try block raised,
\*   "step"   a step is appended and current_expr replaced,
\*   "beyond" the result lies outside the numeric range of the model.
Iteration(phase, cur, num) ==
    IF ~LoopCondition(phase, cur) THEN Outcome("exit", cur, <<>>)
    ELSE WithMatch(phase, cur, num, re_search(phase, Searched(phase, cur)))

\* No result of the run from phase p on leaves the model's numeric range.
RECURSIVE RunsWithin(_, _), RunsOn(_, _, _)
RunsWithin(p, cur) ==
    IF p > Len(Phases) THEN TRUE
    ELSE RunsOn(p, cur, Iteration(Phases[p], cur, 0))

RunsOn(p, cur, it) ==
    CASE it.kind = "step" -> RunsWithin(p, it.expr)
      [] it.kind = "beyond" -> FALSE
      [] OTHER -> RunsWithin(p + 1, cur)

\* ------------------------------------------------------------------ validate_answer

\* the literal 0.0001
Tolerance == [n |-> 1, d |-> 10000]

\* diff < 0.0001, for diff = n over d
Below(n, d) == n * Tolerance.d < Tolerance.n * d

\* abs(a - b) over their common denominator l
Apart(a, b, l) == Abs(a.n * (l \div a.d) - b.n * (l \div b.d))

\* diff <= 0.0001, for diff = n over d
AtMost(n, d) == n * Tolerance.d <= Tolerance.n * d

\* abs(a - b) <= 0.0001 on exact values
UpToTolerance(a, b) ==
    AtMost(Apart(a, b, (a.d * b.d) \div Gcd(a.d, b.d)), (a.d * b.d) \div Gcd(a.d, b.d))

\* abs(a - b) < 0.0001 on exact values
WithinTolerance(a, b) ==
    Below(Apart(a, b, (a.d * b.d) \div Gcd(a.d, b.d)), (a.d * b.d) \div Gcd(a.d, b.d))

NoStudent == Special("absent")

Verdict(keys, is_correct, error, correct_answer, student) ==
    [keys |-> keys, is_correct |-> is_correct, error |-> error,
     correct_answer |-> correct_answer, student_answer |-> student]

\* validate_answer from "if correct_answer is None" on
Judged(correct_answer, student) ==
    IF correct_answer.k = "none"
    THEN Verdict({"is_correct", "error", "correct_answer"},
                 FALSE, "Invalid expression", None, NoStudent)
    ELSE Verdict({"is_correct", "correct_answer", "student_answer"},
                 WithinTolerance(ToFloat(student), correct_answer), "",
                 correct_answer, ToFloat(student))

\* BODMASSolver.validate_answer for a student_answer that is a float
validate_answer(expr, student) == Judged(solve(expr), student)

\* ------------------------------------------------------------------ inputs

Lit == {<<"0">>, <<"2">>, <<"3">>, <<"1", "2">>}
Op == {<<"+">>, <<"-">>, <<"*">>, <<"/">>, <<"*", "*">>}
Open == <<"(">>
Close == <<")">>

\* the well-formed expressions of the model, as lists of tokens
Chains ==
    {<<a>> : a \in Lit}
    \cup {<<a, o, b>> : a \in Lit, o \in Op, b \in Lit}
    \cup {<<a, o, b, q, c>> : a \in Lit, o \in Op, b \in Lit, q \in Op, c \in Lit}

Bracketed ==
    {<<Open, a, o, b, Close>> : a \in Lit, o \in Op, b \in Lit}
    \cup {<<Open, a, o, b, Close, q, c>> :
             a \in Lit, o \in Op, b \in Lit, q \in Op, c \in Lit}
    \cup {<<a, o, Open, b, q, c, Close>> :
             a \in Lit, o \in Op, b \in Lit, q \in Op, c \in Lit}
    \cup {<<Open, a, Close, o, Open, b, Close>> : a \in Lit, o \in Op, b \in Lit}
    \cup {<<Open, Open, a, o, b, Close, Close>> : a \in Lit, o \in Op, b \in Lit}

\* an operator written twice
Doubled == {<<a, o, q, b>> : a \in Lit, o \in Op, q \in Op, b \in Lit}

\* a negated second operand
Negated ==
    {<<a, o, <<"-">>, b, q, c>> : a \in Lit, o \in Op, b \in Lit, q \in Op, c \in Lit}

Prefixes(t) == {SubSeq(t, 1, k) : k \in 0..Len(t)}
Suffixes(t) == {SubSeq(t, k, Len(t)) : k \in 1..(Len(t) + 1)}

\* the well-formed expressions and what is left of them when tokens are
\* missing at either end
TokenLists ==
    UNION {Prefixes(t) : t \in Chains \cup Bracketed}
    \cup UNION {Suffixes(t) : t \in Chains}
    \cup Doubled
    \cup Negated

\* the tokens written one after the other, with single spaces between or not
RECURSIVE Join(_, _)
Join(t, spaced) ==
    IF Len(t) = 0 THEN <<>>
    ELSE IF Len(t) = 1 THEN t[1]
    ELSE t[1] \o (IF spaced THEN <<" ">> ELSE <<>>) \o Join(Tail(t), spaced)

Candidates == {Join(t, spaced) : t \in TokenLists, spaced \in BOOLEAN}

\* the expressions none of whose results leaves the model's numeric range
WithinModel(e) == solve(e).k # "beyond" /\ RunsWithin(1, RemoveSpaces(e))

Inputs == {e \in Candidates : WithinModel(e)}

\* the answers a student gives: exact floats around the correct answer, one
\* unit further, and 0.0001 itself when the correct answer is 0
Unit == Pow2(14)

\* the float n / Unit
Units(n) == Num(n \div Gcd(Abs(n), Unit), Unit \div Gcd(Abs(n), Unit), TRUE, FALSE)

\* the float k units above base
Near(base, k) == Units(base.n * (Unit \div base.d) + k)

AnswersAround(base) ==
    {Near(base, k) : k \in (-MaxOffset)..MaxOffset}
    \cup {Near(base, Unit)}
    \cup (IF base.n = 0
          THEN {Num(1, Tolerance.d, TRUE, FALSE), Num(-1, Tolerance.d, TRUE, FALSE)}
          ELSE {})

\* the correct answer, 0.0 where there is none
Base(c) == IF IsNum(c) THEN c ELSE Num(0, 1, TRUE, FALSE)

StudentAnswers(expr) == AnswersAround(Base(solve(expr)))

\* ------------------------------------------------------------------ state

VARIABLES
    expr,            \* the expression the caller passes
    pc,              \* "idle", "solved", "validated", a phase, or "returned"
    current_expr,    \* get_correct_steps: the working expression
    steps,           \* get_correct_steps: the list of steps
    step_num,        \* get_correct_steps: the next step's number
    halted,          \* get_correct_steps: the phases whose loop ended in break
    answer,          \* what solve returned
    student_answer,  \* the answer the caller passes to validate_answer
    validation       \* what validate_answer returned

vars == <<expr, pc, current_expr, steps, step_num, halted, answer,
          student_answer, validation>>

NotCalled == Special("uncalled")

Init ==
    /\ expr \in Inputs
    /\ pc = "idle"
    /\ current_expr = <<>>
    /\ steps = <<>>
    /\ step_num = 0
    /\ halted = {}
    /\ answer = NotCalled
    /\ student_answer = NoStudent
    /\ validation = Verdict({}, FALSE, "", NotCalled, NoStudent)

\* solver.solve(expr)
Solve ==
    /\ pc = "idle"
    /\ answer' = solve(expr)
    /\ pc' = "solved"
    /\ UNCHANGED <<expr, current_expr, steps, step_num, halted, student_answer, validation>>

\* solver.validate_answer(expr, student_answer)
ValidateAnswer ==
    /\ pc = "idle"
    /\ \E student \in StudentAnswers(expr) :
          /\ student_answer' = student
          /\ validation' = validate_answer(expr, student)
    /\ pc' = "validated"
    /\ UNCHANGED <<expr, current_expr, steps, step_num, halted, answer>>

\* get_correct_steps with expr_clean, not expr, in step 0
GetCleanedSteps ==
    /\ pc = "idle"
    /\ steps' = <<StepRecord(0, RemoveSpaces(expr), "Original expression", <<>>, <<>>)>>
    /\ current_expr' = RemoveSpaces(expr)
    /\ step_num' = 1
    /\ pc' = Phases[1]
    /\ UNCHANGED <<expr, halted, answer, student_answer, validation>>

\* get_correct_steps, up to the first loop: step 0, expr_clean, step_num = 1
GetCorrectSteps ==
    /\ pc = "idle"
    /\ steps' = <<StepRecord(0, expr, "Original expression", <<>>, <<>>)>>
    /\ current_expr' = RemoveSpaces(expr)
    /\ step_num' = 1
    /\ pc' = Phases[1]
    /\ UNCHANGED <<expr, halted, answer, student_answer, validation>>

\* what follows the loop of a phase: the next loop, or return steps
After(phase) ==
    CASE phase = "Brackets" -> "Orders/Exponents"
      [] phase = "Orders/Exponents" -> "Division/Multiplication"
      [] phase = "Division/Multiplication" -> "Addition/Subtraction"
      [] phase = "Addition/Subtraction" -> "returned"

\* one iteration that appends a step and leaves step_num as it is
RecordUnnumbered(it) ==
    /\ it.kind = "step"
    /\ steps' = steps \o it.step
    /\ current_expr' = it.expr
    /\ UNCHANGED <<expr, pc, step_num, halted, answer, student_answer, validation>>

\* one iteration that appends a step
Record(it) ==
    /\ it.kind = "step"
    /\ steps' = steps \o it.step
    /\ current_expr' = it.expr
    /\ step_num' = step_num + 1
    /\ UNCHANGED <<expr, pc, halted, answer, student_answer, validation>>

Reduce(phase) ==
    /\ pc = phase
    /\ Record(Iteration(phase, current_expr, step_num))

\* the loop ends in break: no match, or the try block raised
Break(phase) ==
    /\ pc = phase
    /\ Iteration(phase, current_expr, step_num).kind = "break"
    /\ halted' = halted \cup {phase}
    /\ pc' = After(phase)
    /\ UNCHANGED <<expr, current_expr, steps, step_num, answer, student_answer, validation>>

\* the loop ends because its condition is false
Exit(phase) ==
    /\ pc = phase
    /\ Iteration(phase, current_expr, step_num).kind = "exit"
    /\ pc' = After(phase)
    /\ UNCHANGED <<expr, current_expr, steps, step_num, halted, answer, student_answer, validation>>

BracketsReduce == Reduce("Brackets")
BracketsBreak == Break("Brackets")
BracketsExit == Exit("Brackets")
OrdersReduce == Reduce("Orders/Exponents")
OrdersBreak == Break("Orders/Exponents")
OrdersExit == Exit("Orders/Exponents")
DivMulReduce == Reduce("Division/Multiplication")
DivMulBreak == Break("Division/Multiplication")
DivMulExit == Exit("Division/Multiplication")
AddSubReduce == Reduce("Addition/Subtraction")
AddSubBreak == Break("Addition/Subtraction")
AddSubExit == Exit("Addition/Subtraction")

Next ==
    \/ Solve
    \/ ValidateAnswer
    \/ GetCorrectSteps
    \/ BracketsReduce
    \/ BracketsBreak
    \/ BracketsExit
    \/ OrdersReduce
    \/ OrdersBreak
    \/ OrdersExit
    \/ DivMulReduce
    \/ DivMulBreak
    \/ DivMulExit
    \/ AddSubReduce
    \/ AddSubBreak
    \/ AddSubExit

Spec == Init /\ [][Next]_vars


\* ------------------------------------------------------------------ the precedence convention

\* The definitions of this section state what the claims speak of: the
\* well-formed formulas and the value the BODMAS convention gives them.

BinaryOps == {"+", "-", "*", "/", "**"}

\* the precedence classes, the tightest first
Classes == <<{"**"}, {"*", "/"}, {"+", "-"}>>

Lexemes(e) == PyLex(e, 1)

\* The index after the operand at p, resp. after the chain of operands and
\* binary operators at p, 0 if there is none.  With signs, an operand may be
\* preceded by "+" and "-" signs.
RECURSIVE OperandEnd(_, _, _), ChainEnd(_, _, _)
OperandEnd(toks, p, signs) ==
    IF p > Len(toks) THEN 0
    ELSE IF toks[p].t = "num" THEN p + 1
    ELSE IF signs /\ OpAt(toks, p) \in {"+", "-"} THEN OperandEnd(toks, p + 1, signs)
    ELSE IF OpAt(toks, p) = "("
    THEN LET q == ChainEnd(toks, p + 1, signs)
         IN IF q # 0 /\ OpAt(toks, q) = ")" THEN q + 1 ELSE 0
    ELSE 0

ChainEnd(toks, p, signs) ==
    LET q == OperandEnd(toks, p, signs)
    IN IF q = 0 THEN 0
       ELSE IF OpAt(toks, q) \in BinaryOps THEN ChainEnd(toks, q + 1, signs)
       ELSE q

Formula(toks, signs) ==
    /\ \A i \in 1..Len(toks) : toks[i].t # "bad"
    /\ ChainEnd(toks, 1, signs) = Len(toks) + 1

\* a formula over literals, the binary operators + - * / ** and brackets
WellFormed(e) == Formula(Lexemes(e), FALSE)

\* the same, its operands signed or not
Arithmetic(e) == Formula(Lexemes(e), TRUE)

\* the same number (0.0 and -0.0 are one number), or the same outcome
SameNumber(a, b) == a.k = b.k /\ a.n = b.n /\ a.d = b.d

\* a op b on numbers, a / 0 being positive infinity
Prescribed(op, a, b) ==
    IF ~IsNum(a) \/ ~IsNum(b) THEN Beyond
    ELSE IF op = "/" /\ b.n = 0 THEN Inf
    ELSE PyBinOp(op, ToFloat(a), ToFloat(b))

Value(v) == Tok("num", "", v, 0)

OperatorsOf(items, class) ==
    {i \in 1..Len(items) : items[i].t = "op" /\ items[i].s \in class}

\* the left-most (ltr) or the right-most index of S
Pick(S, ltr) == CHOOSE i \in S : \A j \in S : IF ltr THEN i <= j ELSE i >= j

\* items with every operator of the class applied, one after the other
RECURSIVE Folded(_, _, _)
Folded(items, class, ltr) ==
    IF OperatorsOf(items, class) = {} THEN items
    ELSE LET i == Pick(OperatorsOf(items, class), ltr)
         IN Folded(SubSeq(items, 1, i - 2)
                   \o <<Value(Prescribed(items[i].s, items[i - 1].v, items[i + 1].v))>>
                   \o SubSeq(items, i + 2, Len(items)),
                   class, ltr)

\* the value of a formula without brackets: the exponents first, then the
\* multiplications and divisions, then the additions and subtractions
Flat(items, ltr) ==
    Folded(Folded(Folded(items, Classes[1], ltr), Classes[2], ltr), Classes[3], ltr)[1].v

\* items with every bracket replaced by its value, the innermost first
RECURSIVE Unbracketed(_, _)
Unbracketed(items, ltr) ==
    IF \A k \in 1..Len(items) : OpAt(items, k) # ")" THEN items
    ELSE LET j == Pick({k \in 1..Len(items) : OpAt(items, k) = ")"}, TRUE)
             i == Pick({k \in 1..j : OpAt(items, k) = "("}, FALSE)
         IN Unbracketed(SubSeq(items, 1, i - 1)
                        \o <<Value(Flat(SubSeq(items, i + 1, j - 1), ltr))>>
                        \o SubSeq(items, j + 1, Len(items)),
                        ltr)

\* The value of a well-formed formula by the convention: brackets first, then
\* each class in turn, within a class from the left (ltr) or from the right.
BodmasValue(e, ltr) == Flat(Unbracketed(Lexemes(e), ltr), ltr)

\* the convention gives e one value, whichever way a class is gone through
OrderFree(e) == SameNumber(BodmasValue(e, TRUE), BodmasValue(e, FALSE))

\* abs(a - b) < n / d, on numbers
Closer(a, b, n, d) ==
    LET l == (a.d * b.d) \div Gcd(a.d, b.d)
        diff == Abs(a.n * (l \div a.d) - b.n * (l \div b.d))
    IN diff < l /\ diff * d < n * l

\* s is a bare numeric literal
IsLiteral(s) == Len(s) > 0 /\ NumberEnd(s, 1) = Len(s) + 1

Label(step) == step.description.label

InCall == pc \in {Phases[p] : p \in 1..Len(Phases)} \cup {"returned"}


\* ------------------------------------------------------------------ claims

\* the expression of the last step of the trace
LastExpression == steps[Len(steps)].expression

\* get_correct_steps returned and none of its loops ended in break
Reduced == pc = "returned" /\ halted = {}

\* C1: whenever get_correct_steps reduces a well-formed expression
\* successfully (no phase gave up) and solve has a value for it, the expression
\* of the last step is a bare numeric literal within 0.0001 of that value.
C1_TraceCompleteness ==
    (/\ Reduced
     /\ WellFormed(expr)
     /\ IsNum(solve(expr))
     /\ IsLiteral(LastExpression) => IsNum(PyFloat(LastExpression)))
    => /\ IsLiteral(LastExpression)
       /\ Closer(PyFloat(LastExpression), solve(expr), Tolerance.n, Tolerance.d)

\* the convention gives the well-formed expr one value, a number or infinity
HasBodmasValue ==
    /\ WellFormed(expr)
    /\ OrderFree(expr)
    /\ BodmasValue(expr, TRUE).k \in {"num", "inf"}

\* C2: for every well-formed expression, solve returns the value obtained by
\* evaluating the brackets first, then **, then * and /, and only then + and -
\* (stated for the expressions whose value does not depend on the order
\* within a class).
C2_PrecedenceLaw ==
    (pc = "solved" /\ HasBodmasValue) => SameNumber(answer, BodmasValue(expr, TRUE))

\* expr is a op1 b op2 c with both operators in the precedence class
ChainOf(toks, class) ==
    /\ Len(toks) = 5
    /\ \A i \in {1, 3, 5} : toks[i].t = "num"
    /\ \A i \in {2, 4} : OpAt(toks, i) \in class

\* (a op1 b) op2 c
LeftToRight(toks) ==
    Prescribed(toks[4].s, Prescribed(toks[2].s, toks[1].v, toks[3].v), toks[5].v)

\* C3: for a chain a op1 b op2 c whose operators belong to one precedence
\* class, solve returns (a op1 b) op2 c.
C3_LeftToRight ==
    \A c \in 1..Len(Classes) :
        (/\ pc = "solved"
         /\ ChainOf(Lexemes(expr), Classes[c])
         /\ IsNum(LeftToRight(Lexemes(expr))))
        => SameNumber(answer, LeftToRight(Lexemes(expr)))

\* the step records a division by zero: its match is a / b with b zero
DividesByZero(step) ==
    LET m == re_search("Division/Multiplication", step.description.sub)
    IN /\ Label(step) = "Division/Multiplication"
       /\ m.found
       /\ m.op = "/"
       /\ IsNum(PyFloat(m.g3))
       /\ PyFloat(m.g3).n = 0

\* C4: dividing by zero is not a failure: solve returns positive infinity for
\* a well-formed expression whose evaluation ends in a division by zero, and
\* a Division/Multiplication step that divides by zero records "inf".
C4_DivisionByZero ==
    /\ (pc = "solved" /\ WellFormed(expr) /\ BodmasValue(expr, TRUE).k = "inf")
       => answer.k = "inf"
    /\ \A k \in 1..Len(steps) :
          DividesByZero(steps[k]) => steps[k].description.result = PyStr(Inf)

\* the failure validate_answer reports
InvalidExpression ==
    Verdict({"is_correct", "error", "correct_answer"},
            FALSE, "Invalid expression", None, NoStudent)

\* C5: for every input that is no arithmetic formula over literals, the
\* binary operators + - * / ** and brackets (signed operands are let pass),
\* solve returns None and validate_answer reports the failure.
C5_MalformedInput ==
    ~Arithmetic(expr)
    => /\ pc = "solved" => answer = None
       /\ pc = "validated" => validation = InvalidExpression


\* C6: whenever solve has a value for the expression, validate_answer reports
\* is_correct exactly when the student's answer is strictly less than 0.0001
\* away from it, and returns solve's value and the student's answer as given.
C6_ValidatorTolerance ==
    (pc = "validated" /\ IsNum(solve(expr)))
    => /\ validation.correct_answer = solve(expr)
       /\ validation.student_answer = student_answer
       /\ validation.is_correct <=> Closer(student_answer, solve(expr), 1, 10000)

\* an answer that is not the correct one is accepted
C6_Witness ==
    /\ pc = "validated"
    /\ IsNum(solve(expr))
    /\ validation.is_correct
    /\ ~SameNumber(student_answer, validation.correct_answer)

StepZero == StepRecord(0, expr, "Original expression", <<>>, <<>>)

Running == pc \in {Phases[p] : p \in 1..Len(Phases)}

\* C7: get_correct_steps never fails: from its first assignment on the trace
\* begins with step 0, which holds the expression as the caller wrote it; every
\* pass through a loop appends a step, ends the loop in break or finds its
\* condition false, so that the call goes on to the return; a step once
\* appended stays as it is, and a loop that ends in break leaves the steps
\* gathered so far as they are.
C7_NeverFails ==
    /\ [](InCall => (Len(steps) >= 1 /\ steps[1] = StepZero))
    /\ [](Running => Iteration(pc, current_expr, step_num).kind
                         \in {"step", "break", "exit"})
    /\ [][InCall => SubSeq(steps', 1, Len(steps)) = steps]_vars
    /\ [][halted' # halted => steps' = steps]_vars

\* a trace returned after a loop gave up, for an expression written with spaces
C7_Witness ==
    /\ pc = "returned"
    /\ halted # {}
    /\ Len(steps) >= 2
    /\ Contains(expr, " ")

\* C8: in every trace, whichever loops ended in break, the k-th step of the
\* list has index k: 0, 1, 2, ... without gaps or repeats.
C8_TraceMonotonicity ==
    InCall => \A k \in 1..Len(steps) : steps[k].step = k - 1

\* a trace of three steps or more, returned after a loop gave up
C8_Witness ==
    /\ pc = "returned"
    /\ halted # {}
    /\ Len(steps) >= 3

\* the place of a step's phase in the order of the phases, 0 for step 0
PhaseIndex(step) ==
    IF \E p \in 1..Len(Phases) : Phases[p] = Label(step)
    THEN CHOOSE p \in 1..Len(Phases) : Phases[p] = Label(step)
    ELSE 0

\* C9: the steps of a trace appear in the order of the phases, and a phase
\* exhausts its operators before the next begins: the expression of a
\* Division/Multiplication step holds no "**", and the expression of an
\* Addition/Subtraction step holds no "*" and no "/".
C9_PhaseOrdering ==
    /\ \A j, k \in 1..Len(steps) :
          j < k => PhaseIndex(steps[j]) <= PhaseIndex(steps[k])
    /\ \A k \in 1..Len(steps) :
          /\ Label(steps[k]) = "Division/Multiplication"
                => ~HasPower(steps[k].expression)
          /\ Label(steps[k]) = "Addition/Subtraction"
                => /\ ~Contains(steps[k].expression, "*")
                   /\ ~Contains(steps[k].expression, "/")

\* C10: once the bracket loop has given up (no innermost pair although a "("
\* remains, or the interior could not be evaluated), no step of a later phase
\* is appended: the trace holds step 0 and bracket steps only.
C10_BracketHalt ==
    "Brackets" \in halted
    => \A k \in 1..Len(steps) : Label(steps[k]) \in {"Original expression", "Brackets"}


\* the working expression the k-th step of the list was made from
Before(k) == IF k = 2 THEN RemoveSpaces(expr) ELSE steps[k - 1].expression

\* a (+|-) b starts at i, a being a whole literal of s: it starts where s
\* starts or behind a character that is no part of a number, and it carries a
\* sign at the start of s only
WholePairAt(s, i) ==
    /\ i = 1 \/ (~IsDigit(s[i - 1]) /\ s[i - 1] # ".")
    /\ s[i] = "-" => i = 1
    /\ BinaryAt(s, i, {"+", "-"}).found

HasWholePair(s) == \E i \in 1..Len(s) : WholePairAt(s, i)

\* the left-most a (+|-) b of whole literals
LeftmostPair(s) ==
    BinaryAt(s, Pick({i \in 1..Len(s) : WholePairAt(s, i)}, TRUE), {"+", "-"})

\* s with the pair m replaced by the value of a op b
PairReplaced(s, m) ==
    SubSeq(s, 1, m.start - 1)
    \o PyStr(PyBinOp(m.op, PyFloat(m.g1), PyFloat(m.g3)))
    \o SubSeq(s, m.end, Len(s))

\* C11: each Addition/Subtraction step reduces the left-most a (+|-) b of
\* whole literals of the working expression (a leading "-" being the sign of
\* the first literal) and replaces exactly that pair by the value of a op b.
C11_AddSubReduction ==
    \A k \in 2..Len(steps) :
        Label(steps[k]) = "Addition/Subtraction"
        => /\ HasWholePair(Before(k))
           /\ steps[k].expression = PairReplaced(Before(k), LeftmostPair(Before(k)))


\* the number of places of s that hold the character c
CountOf(s, c) == Cardinality({i \in 1..Len(s) : s[i] = c})

\* the number of places of s where "**" starts
PowerCount(s) ==
    Cardinality({i \in 1..(Len(s) - 1) : s[i] = "*" /\ s[i + 1] = "*"})

\* the occurrences in s of the operators of the p-th phase
Occurrences(p, s) ==
    CASE p = 2 -> PowerCount(s)
      [] p = 3 -> CountOf(s, "*") + CountOf(s, "/")
      [] p = 4 -> CountOf(s, "+") + CountOf(s, "-")

\* the passes made so far through the loop of the p-th phase: those that
\* appended a step, and the one that ended in break
Passes(p) ==
    Cardinality({k \in 1..Len(steps) : Label(steps[k]) = Phases[p]})
    + (IF Phases[p] \in halted THEN 1 ELSE 0)

\* the working expression when the p-th phase starts: what the last step of
\* the phases before it left
StartOf(p) ==
    LET k == Pick({j \in 1..Len(steps) : PhaseIndex(steps[j]) < p}, FALSE)
    IN IF k = 1 THEN RemoveSpaces(expr) ELSE steps[k].expression

\* C12: get_correct_steps terminates: a call that has not returned makes its
\* next pass (a step, a break or a loop exit); every bracket step leaves fewer
\* "(" than it found; and the loop of each later phase makes at most as many
\* passes as its operators occur in the working expression the phase starts on.
C12_Termination ==
    InCall
    => /\ Running => Iteration(pc, current_expr, step_num).kind # "beyond"
       /\ \A k \in 2..Len(steps) :
             Label(steps[k]) = "Brackets"
             => CountOf(steps[k].expression, "(") < CountOf(Before(k), "(")
       /\ \A p \in 2..Len(Phases) : Passes(p) <= Occurrences(p, StartOf(p))


\* expr is well-formed and has a value, on which solve and the convention,
\* each class gone through from the left, agree
HasValue ==
    /\ WellFormed(expr)
    /\ IsNum(solve(expr))
    /\ SameNumber(solve(expr), BodmasValue(expr, TRUE))

\* e is a formula (its operands signed or not) of the value of expr
Preserves(e) == Arithmetic(e) /\ SameNumber(solve(e), solve(expr))

\* C13: for every well-formed expression that has a value, the expression of
\* every step k >= 1 of the trace is itself a formula and has the value of
\* the original expression.
C13_ValuePreservation ==
    HasValue => \A k \in 2..Len(steps) : Preserves(steps[k].expression)

====
